---- MODULE Spec2Model ----
(***************************************************************************)
(* Model of pngstego (src/pngstego.c): LSB steganography over the decoded  *)
(* rows of an 8-bit truecolor PNG.  One behaviour is one or two runs of    *)
(* the program: `pngstego X.png embed msg`, optionally followed by         *)
(* `pngstego embedded_X.png extract out`, or a single                      *)
(* `pngstego X.png extract out` on an arbitrary image.                     *)
(*                                                                         *)
(* libpng and the file system are the environment: an image file is its    *)
(* width, its height and its decoded rows (3 carrier bytes per pixel).     *)
(***************************************************************************)
EXTENDS Integers, Sequences, FiniteSets, TLC

\* ------------------------------------------------------------------ bounds
MaxWidth == 24
MaxHeight == 2
MaxLen == 36
\* the most header positions of an image that lie outside its row 0
MaxOutside == 5

\* ------------------------------------------------------- program constants
BITS_NEEDED_TO_STORE_MESSAGE_LENGTH == 32
BYTE_SIZE == 8
\* bytes per pixel assumed by the loops (max_cols * 3, width * height * 3)
BYTES_PER_PIXEL == 3
\* INT_MAX of the 32-bit int that (int)pow(2, col) and (bit << col) produce
INT_MAX == 2147483647

VARIABLES
    pc,              \* position of the running process in main
    method,          \* argv[2]: "embed" or "extract"
    png_file,        \* the PNG named by argv[1]: [width, height, rows]
    row_pointers,    \* decoded rows (png_get_rows); <<>> before open_png_file
                     \* and once png_destroy_read_struct has freed them
    width, height,   \* png_get_image_width / png_get_image_height
    message,         \* content of the message file (argv[3] of embed)
    message_length,  \* the size_t global
    available_space, \* the int global
    output,          \* bytes written to output_fp by extract
    png_written,     \* output_embedded_png has written embedded_<name>
    png_out,         \* the image it wrote
    stdout, stderr,  \* what the runs printed, in order
    stdin_read,      \* what fscanf(stdin, " %c") met: "unread", a char or "EOF"
    exit_status,     \* "running", or the status the last process ended with
    embedded_length, \* history: the message_length embed_data wrote as header
    carrier0,        \* history: rows of the image the first run decoded
    released,        \* history: the rows as png_destroy_read_struct freed them
    oob              \* history: <<row, col>> accessed outside row_pointers[row]

vars == <<pc, method, png_file, row_pointers, width, height, message,
          message_length, available_space, output, png_written, png_out,
          stdout, stderr, stdin_read, exit_status, embedded_length,
          carrier0, released, oob>>

\* ------------------------------------------------------------ byte helpers
Pow2(k) == 2^k

\* (b >> k) & 1
BitOf(b, k) == (b \div Pow2(k)) % 2

\* the store "= 1" in place of "|= 1"
SetLSBAssigns(b) == 1

\* *(p) |= 1
SetLSB(b) == IF b % 2 = 1 THEN b ELSE b + 1

\* *(p) &= 0xFE
ClearLSB(b) == b - (b % 2)

\* b |= (bit << k), for one byte and k < 8
OrBit(b, bit, k) == IF bit = 1 /\ BitOf(b, k) = 0 THEN b + Pow2(k) ELSE b

\* ------------------------------------------------------------------ size_t
(***************************************************************************)
(* message_length is a 64-bit size_t.  The values the program can give it  *)
(* are a 31-bit low part, lo, and one of three settings of bits 31..63:    *)
(*   "zero"  none set (a value below 2^31),                                *)
(*   "bit31" bit 31 alone (a 32-bit unsigned value with its top bit set),  *)
(*   "ones"  all set (an int with its sign bit set, converted to size_t).  *)
(***************************************************************************)
SizeT(hi, lo) == [hi |-> hi, lo |-> lo]

Zero == SizeT("zero", 0)

\* message_length & (int)pow(2, col): pow(2, 31) does not fit an int; the
\* x86-64 conversion yields INT_MIN, which as a size_t is bits 31..63.
HeaderBitSet(ml, col) ==
    IF col < 31 THEN BitOf(ml.lo, col) = 1 ELSE ml.hi # "zero"

\* message_length |= (bit << col): (1 << 31) is the int INT_MIN, converted
\* to size_t with sign extension.
OrShifted(ml, bit, col) ==
    IF bit = 0 THEN ml
    ELSE IF col < 31
         THEN IF BitOf(ml.lo, col) = 1 THEN ml
              ELSE [ml EXCEPT !.lo = @ + Pow2(col)]
         ELSE [ml EXCEPT !.hi = "ones"]

\* message_length > available_space, the int converted to size_t (n >= 0)
GreaterThanInt(ml, n) == ml.hi # "zero" \/ ml.lo > n

\* bytes_read == (message_length * BYTE_SIZE) + 32, computed modulo 2^64
EqualsPayloadEnd(bytes_read, ml) ==
    LET d == bytes_read - BITS_NEEDED_TO_STORE_MESSAGE_LENGTH IN
    CASE ml.hi = "zero" ->
            d >= 0 /\ d % BYTE_SIZE = 0 /\ d \div BYTE_SIZE = ml.lo
      [] ml.hi = "ones" ->
            \* (2^64 - 2^31 + lo) * 8 + 32 wraps to 8*lo + 32 - 2^34
            d < 0 /\ d % BYTE_SIZE = 0
                  /\ ml.lo = INT_MAX - ((0 - d) \div BYTE_SIZE - 1)
      [] OTHER -> FALSE

\* ------------------------------------------------------------- the carrier
max_cols == width
max_rows == height

\* bytes in one decoded row, the bound of the payload loops
RowBytes == max_cols * BYTES_PER_PIXEL

InRow(col) == col < RowBytes

\* bytes_read: the linear position of (row, col)
LinearIndex(row, col) == (max_cols * row) * BYTES_PER_PIXEL + col

\* the if/else that stores one bit in *(row_pointers[row] + col); a store
\* beyond the row lands outside the pixel buffer and leaves the rows as they are
StoreBit(rows, row, col, bit) ==
    IF InRow(col)
    THEN [rows EXCEPT ![row][col] = IF bit = 1 THEN SetLSB(@) ELSE ClearLSB(@)]
    ELSE rows

\* *(row_pointers[row] + col) & 1; a load beyond the row reads heap memory
\* that is not pixel data: `heap` gives its least-significant bits
LoadBit(rows, row, col, heap) ==
    IF InRow(col) THEN rows[row][col] % 2 ELSE heap[col]

\* the accesses of a header loop that fall outside row 0
HeaderOutOfBounds ==
    {<<0, col>> : col \in {c \in 0..(BITS_NEEDED_TO_STORE_MESSAGE_LENGTH - 1) : ~InRow(c)}}

\* -------------------------------------------------------------- embed_data
(***************************************************************************)
(* The loops are unrolled as recursive operators over the loop state       *)
(*   st = [rows, row, col, fpos, buffer, bits]                             *)
(* rows: the pixel rows, fpos: bytes fread so far, buffer: the char read,  *)
(* bits: bits_embedded.                                                    *)
(***************************************************************************)
\* the header loop of row 0: for(col; col < 32; col++)
RECURSIVE EmbedHeader(_, _)
EmbedHeader(st, ml) ==
    IF st.col < BITS_NEEDED_TO_STORE_MESSAGE_LENGTH
    THEN EmbedHeader([st EXCEPT
                         !.rows = StoreBit(@, 0, st.col,
                                           IF HeaderBitSet(ml, st.col) THEN 1 ELSE 0),
                         !.col = @ + 1],
                     ml)
    ELSE st

\* if (col % BYTE_SIZE == 0) fread(&buffer, 1, 1, message_fp)
AtByteStart(col) == col % BYTE_SIZE = 0

\* the payload loop of one row: for(col; col < max_cols * 3; col++)
RECURSIVE EmbedCols(_)
EmbedCols(st) ==
    IF ~InRow(st.col) THEN st
    ELSE IF AtByteStart(st.col) /\ st.fpos >= Len(message) THEN st  \* fread: 0, break
    ELSE LET buffer == IF AtByteStart(st.col) THEN message[st.fpos + 1] ELSE st.buffer
         IN  EmbedCols([st EXCEPT
                           !.buffer = buffer,
                           !.fpos = IF AtByteStart(st.col) THEN @ + 1 ELSE @,
                           !.rows = StoreBit(@, st.row, st.col,
                                             BitOf(buffer, st.col % BYTE_SIZE)),
                           !.bits = @ + 1,
                           !.col = @ + 1])

\* the row loop: for(row = 0; row < max_rows; row++)
RECURSIVE EmbedRows(_, _)
EmbedRows(st, ml) ==
    IF st.row >= max_rows THEN st
    ELSE LET st0 == [st EXCEPT !.col = 0]
             st1 == IF st.row = 0 THEN EmbedHeader(st0, ml) ELSE st0
             st2 == EmbedCols(st1)
         IN  EmbedRows([st2 EXCEPT !.row = @ + 1], ml)

EmbedLoops(rows, ml) ==
    EmbedRows([rows |-> rows, row |-> 0, col |-> 0, fpos |-> 0, buffer |-> 0,
               bits |-> 0], ml)

\* ------------------------------------------------------------ extract_data
(***************************************************************************)
(* Loop state st = [ml, row, col, buffer, out, bits, done]: ml is          *)
(* message_length, out the bytes written to output_fp, bits is             *)
(* bits_extracted, done is done_extracting.                                *)
(***************************************************************************)
\* the header loop of row 0: for(col; col < 32; col++)
RECURSIVE ExtractHeader(_, _, _)
ExtractHeader(st, rows, heap) ==
    IF st.col < BITS_NEEDED_TO_STORE_MESSAGE_LENGTH
    THEN ExtractHeader([st EXCEPT
                           !.ml = OrShifted(@, LoadBit(rows, 0, st.col, heap), st.col),
                           !.col = @ + 1],
                       rows, heap)
    ELSE st

\* the test "col >= 32" in place of "col > 32"
WritesByteFromHeaderEnd(row, col) ==
    (col >= BITS_NEEDED_TO_STORE_MESSAGE_LENGTH \/ row > 0) /\ col % BYTE_SIZE = 0

\* (col > BITS_NEEDED_TO_STORE_MESSAGE_LENGTH || row > 0) && col % BYTE_SIZE == 0
WritesByte(row, col) ==
    (col > BITS_NEEDED_TO_STORE_MESSAGE_LENGTH \/ row > 0) /\ col % BYTE_SIZE = 0

\* the payload loop of one row: for(col; col < max_cols * 3; col++)
RECURSIVE ExtractCols(_, _)
ExtractCols(st, rows) ==
    IF ~InRow(st.col) THEN st
    ELSE LET st1 == IF WritesByte(st.row, st.col)
                    THEN [st EXCEPT !.out = Append(@, st.buffer), !.buffer = 0]
                    ELSE st
         IN  IF EqualsPayloadEnd(LinearIndex(st.row, st.col), st.ml)
             THEN [st1 EXCEPT !.done = TRUE]
             ELSE ExtractCols([st1 EXCEPT
                                  !.buffer = OrBit(@, rows[st.row][st.col] % 2,
                                                   st.col % BYTE_SIZE),
                                  !.bits = @ + 1,
                                  !.col = @ + 1],
                              rows)

\* the row loop: for(row = 0; row < max_rows; row++) if(done_extracting) break
RECURSIVE ExtractRows(_, _, _)
ExtractRows(st, rows, heap) ==
    IF st.row >= max_rows \/ st.done THEN st
    ELSE LET st0 == [st EXCEPT !.col = 0]
             st1 == IF st.row = 0 THEN ExtractHeader(st0, rows, heap) ELSE st0
             st2 == ExtractCols(st1, rows)
         IN  ExtractRows([st2 EXCEPT !.row = @ + 1], rows, heap)

ExtractLoops(rows, ml, heap) ==
    ExtractRows([ml |-> ml, row |-> 0, col |-> 0, buffer |-> 0, out |-> <<>>,
                 bits |-> 0, done |-> FALSE], rows, heap)

\* ------------------------------------------------------------------ inputs
Fills == {"zeros", "ones", "mixed"}

FillByte(fill, i) ==
    CASE fill = "zeros" -> 0
      [] fill = "ones"  -> 255
      [] OTHER          -> (5 * i + (i \div 3)) % 256

\* an image of w x h pixels, rows and columns counted from 0
Carrier(w, h, fill) ==
    [r \in 0..(h - 1) |->
        [c \in 0..(w * BYTES_PER_PIXEL - 1) |-> FillByte(fill, r * w * BYTES_PER_PIXEL + c)]]

\* an image whose first carrier bytes spell the length v, as another tool or
\* an earlier embedding would have left them
WithHeader(rows, v) ==
    [rows EXCEPT ![0] =
        [c \in DOMAIN rows[0] |->
            IF c < BITS_NEEDED_TO_STORE_MESSAGE_LENGTH /\ c < 31
            THEN rows[0][c] - (rows[0][c] % 2) + BitOf(v, c)
            ELSE IF c = 31 THEN rows[0][c] - (rows[0][c] % 2)
            ELSE rows[0][c]]]

Patterns == {"mixed", "ones"}

PayloadByte(pat, i) == IF pat = "ones" THEN 255 ELSE (37 * i + 11) % 256

Payload(len, pat) == [i \in 1..len |-> PayloadByte(pat, i)]

\* the first non-blank character on stdin, or end of input
Answers == {"Y", "y", "N", "n", "q", "EOF"}

(***************************************************************************)
(* Least-significant bits of the 32 bytes at row_pointers[0] as a header   *)
(* loop meets them.  The positions behind a row 0 of fewer than 32 bytes   *)
(* are outside the allocation of the row: what they hold is the allocator's*)
(* bookkeeping, the remainder of the chunk, or stale or live buffers of    *)
(* libpng, and it varies with the encoding of the file and with the build. *)
(* Every content is offered; the positions inside the row are not read     *)
(* from here.                                                              *)
(***************************************************************************)
Heaps ==
    LET outside == {c \in 0..(BITS_NEEDED_TO_STORE_MESSAGE_LENGTH - 1) : ~InRow(c)}
    IN  {[c \in 0..(BITS_NEEDED_TO_STORE_MESSAGE_LENGTH - 1) |->
             IF c \in outside THEN f[c] ELSE 0] : f \in [outside -> {0, 1}]}

\* the widths modelled: at most MaxOutside header positions outside row 0
Widths ==
    {w \in 1..MaxWidth :
        BITS_NEEDED_TO_STORE_MESSAGE_LENGTH - w * BYTES_PER_PIXEL <= MaxOutside}

Images ==
    {[width |-> w, height |-> h, rows |-> Carrier(w, h, fill)] :
        w \in Widths, h \in 1..MaxHeight, fill \in Fills}

CraftedImages ==
    {[width |-> w, height |-> h, rows |-> WithHeader(Carrier(w, h, fill), v)] :
        w \in Widths, h \in 1..MaxHeight, fill \in Fills, v \in 0..MaxLen}

Init ==
    /\ pc = "main"
    /\ \/ /\ method = "embed"
          /\ png_file \in Images
          /\ message \in {Payload(len, pat) : len \in 0..MaxLen, pat \in Patterns}
       \/ /\ method = "extract"
          /\ png_file \in Images \cup CraftedImages
          /\ message = <<>>
    /\ row_pointers = <<>>
    /\ width = 0
    /\ height = 0
    /\ message_length = Zero
    /\ available_space = 0
    /\ output = <<>>
    /\ png_written = FALSE
    /\ png_out = <<>>
    /\ stdout = <<>>
    /\ stderr = <<>>
    /\ stdin_read = "unread"
    /\ exit_status = "running"
    /\ embedded_length = Zero
    /\ carrier0 = png_file.rows
    /\ released = <<>>
    /\ oob = {}

\* ----------------------------------------------------------------- actions
\* main, lines 72-75: read the whole PNG into memory
open_png_file ==
    /\ pc = "main"
    /\ row_pointers' = png_file.rows
    /\ width' = png_file.width
    /\ height' = png_file.height
    /\ pc' = "opened"
    /\ UNCHANGED <<method, png_file, message, message_length, available_space,
                   output, png_written, png_out, stdout, stderr, stdin_read,
                   exit_status, embedded_length, carrier0, released, oob>>

\* available_space = (width * height) * 3
AvailableSpace(w, h) == (w * h) * BYTES_PER_PIXEL

calculate_available_space ==
    /\ pc = "opened"
    /\ method = "embed"
    /\ available_space' = AvailableSpace(width, height)
    /\ stdout' = stdout \o << <<"Image is %dpx x %dpx", width, height>>,
                              <<"Able to embed %d bytes", AvailableSpace(width, height)>> >>
    /\ pc' = "check_size"
    /\ UNCHANGED <<method, png_file, row_pointers, width, height, message,
                   message_length, output, png_written, png_out, stderr,
                   stdin_read, exit_status, embedded_length, carrier0, released, oob>>

\* the test "input == 'N'" with the toupper left out
DeclinesOnUpperN(input) == input = "N"

\* toupper(input) != 'Y'
Declines(input) == input \notin {"Y", "y"}

\* the prompt is shown: message_length > available_space
TooLarge(len, space) == GreaterThanInt(SizeT("zero", len), space)

\* the fprintf of the warning and the prompt
Warning ==
    <<"Warning! Message is too large", Len(message) - available_space, available_space>>

check_message_size ==
    /\ pc = "check_size"
    /\ IF TooLarge(Len(message), available_space)
       THEN \E typed \in Answers :
            \* at end of input fscanf stores nothing and `input` is uninitialized
            \E input \in IF typed = "EOF" THEN Answers \ {"EOF"} ELSE {typed} :
               /\ stdin_read' = typed
               /\ stderr' = Append(stderr, Warning)
               /\ IF Declines(input)
                  THEN /\ message_length' = SizeT("zero", Len(message))
                       /\ pc' = "declined"
                  ELSE /\ message_length' = SizeT("zero", available_space)
                       /\ pc' = "embed"
       ELSE /\ message_length' = SizeT("zero", Len(message))
            /\ pc' = "embed"
            /\ UNCHANGED <<stderr, stdin_read>>
    /\ UNCHANGED <<method, png_file, row_pointers, width, height, message,
                   available_space, output, png_written, png_out, stdout,
                   exit_status, embedded_length, carrier0, released, oob>>

\* main, lines 100-102: check_message_size returned false.  exit_cleanly
\* with the PNG open (read_ptr and info_ptr set, write_ptr not):
\* png_destroy_read_struct frees the decoded rows, then exit(EXIT_SUCCESS)
exit_cleanly ==
    /\ pc = "declined"
    /\ stdout' = Append(stdout, <<"Freeing Read Memory...">>)
    /\ released' = row_pointers
    /\ row_pointers' = <<>>
    /\ stderr' = Append(stderr, <<"Exiting...">>)
    /\ exit_status' = 0
    /\ pc' = "exited"
    /\ UNCHANGED <<method, png_file, width, height, message, message_length,
                   available_space, output, png_written, png_out, stdin_read,
                   embedded_length, carrier0, oob>>

\* embed_data, with the output_embedded_png it ends in
embed_data ==
    /\ pc = "embed"
    /\ LET st == EmbedLoops(row_pointers, message_length) IN
       /\ row_pointers' = st.rows
       /\ stdout' = Append(stdout, <<"%d bytes embedded", st.bits \div BYTE_SIZE>>)
       /\ png_out' = [width |-> width, height |-> height, rows |-> st.rows]
    /\ png_written' = TRUE
    /\ embedded_length' = message_length
    /\ oob' = oob \cup HeaderOutOfBounds
    /\ exit_status' = 0
    /\ pc' = "done"
    /\ UNCHANGED <<method, png_file, width, height, message, message_length,
                   available_space, output, stderr, stdin_read, carrier0, released>>

extract_data ==
    /\ pc = "opened"
    /\ method = "extract"
    /\ \E heap \in Heaps :
         LET st == ExtractLoops(row_pointers, message_length, heap) IN
         /\ message_length' = st.ml
         /\ output' = st.out
         /\ stdout' = Append(stdout, <<"%d bytes extracted", st.bits \div BYTE_SIZE>>)
    /\ oob' = oob \cup HeaderOutOfBounds
    /\ exit_status' = 0
    /\ pc' = "done"
    /\ UNCHANGED <<method, png_file, row_pointers, width, height, message,
                   available_space, png_written, png_out, stderr, stdin_read,
                   embedded_length, carrier0, released>>

\* a second process: pngstego embedded_<name> extract <output_filename>
run_extract_on_output ==
    /\ pc = "done"
    /\ method = "embed"
    /\ png_written
    /\ pc' = "main"
    /\ method' = "extract"
    /\ png_file' = png_out
    /\ row_pointers' = <<>>
    /\ width' = 0
    /\ height' = 0
    /\ message_length' = Zero
    /\ available_space' = 0
    /\ exit_status' = "running"
    /\ UNCHANGED <<message, output, png_written, png_out, stdout, stderr,
                   stdin_read, embedded_length, carrier0, released, oob>>

Next ==
    \/ open_png_file
    \/ calculate_available_space
    \/ check_message_size
    \/ exit_cleanly
    \/ embed_data
    \/ extract_data
    \/ run_extract_on_output

Spec == Init /\ [][Next]_vars

\* the runs on images whose row 0 holds the 32 header positions: every
\* access of these runs is inside the pixel rows
WideInit ==
    /\ Init
    /\ png_file.width * BYTES_PER_PIXEL >= BITS_NEEDED_TO_STORE_MESSAGE_LENGTH

WideSpec == WideInit /\ [][Next]_vars

\* ------------------------------------------------- the header loops alone
(***************************************************************************)
(* HeaderSpec runs the header loop of embed_data on a length and then the  *)
(* header loop of extract_data, in a process whose message_length starts   *)
(* at 0, on the rows the first loop left.                                  *)
(***************************************************************************)
HeaderLows == (0..MaxLen) \cup {Pow2(k) : k \in 0..30} \cup {INT_MAX}

HeaderValues == {SizeT(hi, lo) : hi \in {"zero", "bit31"}, lo \in HeaderLows}

HeaderInit ==
    /\ pc = "encode"
    /\ method = "embed"
    /\ png_file \in {i \in Images :
                        /\ i.height = 1
                        /\ i.width * BYTES_PER_PIXEL >= BITS_NEEDED_TO_STORE_MESSAGE_LENGTH}
    /\ row_pointers = png_file.rows
    /\ width = png_file.width
    /\ height = png_file.height
    /\ message = <<>>
    /\ message_length \in HeaderValues
    /\ available_space = 0
    /\ output = <<>>
    /\ png_written = FALSE
    /\ png_out = <<>>
    /\ stdout = <<>>
    /\ stderr = <<>>
    /\ stdin_read = "unread"
    /\ exit_status = "running"
    /\ embedded_length = Zero
    /\ carrier0 = png_file.rows
    /\ released = <<>>
    /\ oob = {}

header_encode ==
    /\ pc = "encode"
    /\ row_pointers' =
          EmbedHeader([rows |-> row_pointers, row |-> 0, col |-> 0, fpos |-> 0,
                       buffer |-> 0, bits |-> 0], message_length).rows
    /\ embedded_length' = message_length
    /\ message_length' = Zero
    /\ method' = "extract"
    /\ pc' = "decode"
    /\ UNCHANGED <<png_file, width, height, message, available_space, output,
                   png_written, png_out, stdout, stderr, stdin_read, exit_status,
                   carrier0, released, oob>>

header_decode ==
    /\ pc = "decode"
    /\ message_length' =
          ExtractHeader([ml |-> message_length, row |-> 0, col |-> 0, buffer |-> 0,
                         out |-> <<>>, bits |-> 0, done |-> FALSE],
                        row_pointers, CHOOSE x \in Heaps : TRUE).ml
    /\ pc' = "decoded"
    /\ UNCHANGED <<method, png_file, row_pointers, width, height, message,
                   available_space, output, png_written, png_out, stdout, stderr,
                   stdin_read, exit_status, embedded_length, carrier0, released, oob>>

HeaderNext == header_encode \/ header_decode

HeaderSpec == HeaderInit /\ [][HeaderNext]_vars

\* ------------------------------------------------------------ properties
\* the number printed with `text`, or -1 when it was not printed
Reported(text) ==
    LET at == {i \in DOMAIN stdout : stdout[i][1] = text}
    IN  IF at = {} THEN -1 ELSE stdout[CHOOSE i \in at : TRUE][2]

\* carrier bytes of the open image
TotalCarrierBytes == height * width * BYTES_PER_PIXEL

\* the byte capacity the specification gives an image: floor(w * h * 3 / 8)
CapacityBytes(w, h) == (w * h * BYTES_PER_PIXEL) \div BYTE_SIZE

\* the carrier byte of `rows` at a linear CarrierIndex
CarrierAt(rows, index) == rows[index \div RowBytes][index % RowBytes]

\* the end of the payload the header value ml announces, 32 + ml * 8, lies
\* beyond the carrier bytes of the image
HeaderExceedsCarrier(ml) ==
    \/ ml.hi # "zero"
    \/ ml.lo > (TotalCarrierBytes - BITS_NEEDED_TO_STORE_MESSAGE_LENGTH) \div BYTE_SIZE

\* n < ml, for a count n >= 0
FewerThan(n, ml) == ml.hi # "zero" \/ n < ml.lo

ExtractedAfterEmbed == pc = "done" /\ method = "extract" /\ png_written

\* C1: extracting from the image an embedding wrote gives back the payload,
\* byte for byte, whenever the payload length is at most the capacity in
\* bytes less the 4 bytes of header.
C1_RoundTrip ==
    (ExtractedAfterEmbed /\ Len(message) <= CapacityBytes(width, height) - 4)
        => output = message

\* C2: a payload larger than the available space and any answer but yes: the
\* embedding is abandoned with the pixel rows as decoded, they are still as
\* decoded when the run releases them on its way out, and no output image is
\* written.
C2_TruncationDeclined ==
    stdin_read \notin {"unread", "EOF", "Y", "y"} =>
        /\ \/ pc = "declined" /\ row_pointers = carrier0
           \/ pc = "exited" /\ released = carrier0
        /\ ~png_written
        /\ png_out = <<>>

C2_Witness ==
    /\ stdin_read \in {"n", "q"}
    /\ Len(message) > available_space
    /\ RowBytes >= BITS_NEEDED_TO_STORE_MESSAGE_LENGTH
    /\ pc = "exited"
    /\ released = carrier0
    /\ row_pointers = <<>>
    /\ exit_status = 0

\* C3: a payload larger than the available space and the answer yes: the
\* length is clamped to the available space, the header records it, and the
\* count of bytes embedded that is reported is that same value.
C3_TruncationAccepted ==
    (pc = "done" /\ method = "embed" /\ Len(message) > available_space) =>
        /\ message_length = SizeT("zero", available_space)
        /\ embedded_length = message_length
        /\ Reported("%d bytes embedded") = available_space

\* C4: the capacity reported, and compared with the payload length to decide
\* whether to ask for confirmation, is floor(width * height * 3 / 8) bytes.
C4_Capacity ==
    (method = "embed" /\ pc \in {"check_size", "embed", "declined", "exited"}) =>
        /\ Reported("Able to embed %d bytes") = CapacityBytes(width, height)
        /\ pc # "check_size" =>
              (stdin_read # "unread" <=> Len(message) > CapacityBytes(width, height))

\* a diagnostic of the extracting run or a failure status
IncompleteSignalled ==
    \/ exit_status # 0
    \/ \E i \in DOMAIN stderr :
          stderr[i][1] \notin {"Warning! Message is too large", "Exiting..."}

\* C5: a header announcing more payload than the image has carrier bytes for:
\* extraction emits fewer bytes than announced and signals an incomplete
\* extraction.
C5_IncompleteExtraction ==
    (pc = "done" /\ method = "extract" /\ HeaderExceedsCarrier(message_length)) =>
        /\ FewerThan(Len(output), message_length)
        /\ IncompleteSignalled

\* C6: under HeaderSpec, decoding the header that was encoded from a 32-bit
\* value gives that value, and bit i of it sits in the LSB of carrier byte i.
C6_HeaderFidelity ==
    pc = "decoded" =>
        /\ message_length = embedded_length
        /\ \A i \in 0..30 : row_pointers[0][i] % 2 = BitOf(embedded_length.lo, i)
        /\ row_pointers[0][31] % 2 = (IF embedded_length.hi = "zero" THEN 0 ELSE 1)

\* C7: embedding with header value L changes no bit above the LSB of any
\* carrier byte and no carrier byte at a CarrierIndex outside [0, 32 + L * 8).
C7_EmbeddingFrame ==
    png_written =>
        \A r \in DOMAIN carrier0 : \A c \in DOMAIN carrier0[r] :
            /\ png_out.rows[r][c] \div 2 = carrier0[r][c] \div 2
            /\ r * (png_out.width * BYTES_PER_PIXEL) + c
                  >= BITS_NEEDED_TO_STORE_MESSAGE_LENGTH + embedded_length.lo * BYTE_SIZE
               => png_out.rows[r][c] = carrier0[r][c]

\* an embedding of a non-empty payload that changed a payload carrier byte
\* and left carrier bytes behind the payload
C7_Witness ==
    /\ pc = "done"
    /\ method = "embed"
    /\ embedded_length.lo >= 1
    /\ RowBytes >= BITS_NEEDED_TO_STORE_MESSAGE_LENGTH
    /\ TotalCarrierBytes > BITS_NEEDED_TO_STORE_MESSAGE_LENGTH + embedded_length.lo * BYTE_SIZE
    /\ \E c \in DOMAIN carrier0[0] :
          /\ c >= BITS_NEEDED_TO_STORE_MESSAGE_LENGTH
          /\ png_out.rows[0][c] # carrier0[0][c]
    /\ \E c \in DOMAIN carrier0[0] : carrier0[0][c] > 1

\* C8: every carrier byte embed_data and extract_data access lies inside the
\* pixel buffer; an image with fewer than 32 carrier bytes in row 0 is turned
\* away before anything is written.
C8_InBounds ==
    /\ oob = {}
    /\ png_written => png_out.width * BYTES_PER_PIXEL >= BITS_NEEDED_TO_STORE_MESSAGE_LENGTH

\* C9: bit j of payload byte k is in the LSB of the carrier byte at
\* CarrierIndex 32 + 8 * k + j, for every payload byte that fits.
C9_LinearPlacement ==
    (pc = "done" /\ method = "embed") =>
        \A k \in 0..(Len(message) - 1) :
            BITS_NEEDED_TO_STORE_MESSAGE_LENGTH + BYTE_SIZE * k + BYTE_SIZE <= TotalCarrierBytes
            => \A j \in 0..(BYTE_SIZE - 1) :
                  CarrierAt(row_pointers,
                            BITS_NEEDED_TO_STORE_MESSAGE_LENGTH + BYTE_SIZE * k + j) % 2
                      = BitOf(message[k + 1], j)

\* C10: rows of a multiple of 8 and at least 32 carrier bytes, and a payload
\* that ends before the last carrier byte: extraction after embedding emits
\* the payload, the header decodes to its length, and both counts reported
\* are its length.
C10_RestrictedRoundTrip ==
    (/\ ExtractedAfterEmbed
     /\ RowBytes % BYTE_SIZE = 0
     /\ RowBytes >= BITS_NEEDED_TO_STORE_MESSAGE_LENGTH
     /\ BITS_NEEDED_TO_STORE_MESSAGE_LENGTH + BYTE_SIZE * Len(message) < TotalCarrierBytes)
        => /\ output = message
           /\ message_length = SizeT("zero", Len(message))
           /\ Reported("%d bytes embedded") = Len(message)
           /\ Reported("%d bytes extracted") = Len(message)

\* such a round trip of a payload that continues on the second row
C10_Witness ==
    /\ ExtractedAfterEmbed
    /\ RowBytes % BYTE_SIZE = 0
    /\ BITS_NEEDED_TO_STORE_MESSAGE_LENGTH + BYTE_SIZE * Len(message) < TotalCarrierBytes
    /\ BITS_NEEDED_TO_STORE_MESSAGE_LENGTH + BYTE_SIZE * Len(message) > RowBytes + BYTE_SIZE
    /\ output = message
    /\ \E i \in DOMAIN message : message[i] \notin {0, 255}

====
